---- MODULE Spec2Model ----
(***************************************************************************)
(* Crossword generator: the grid model (models.py) and the constraint      *)
(* solver (csp_solver.py: node consistency, AC-3, backtracking search with *)
(* an optional word generator).                                            *)
(*                                                                         *)
(* Words and patterns are sequences of one-character strings.  Python's    *)
(* None is the string "None".  A Python dict is a function whose DOMAIN is *)
(* the set of keys; a Python set is a set; a Python list is a sequence.    *)
(***************************************************************************)
EXTENDS Integers, Sequences, FiniteSets, TLC

VARIABLES
    size,            \* Grid.size
    cells,           \* Grid.cells: <<row, col>> -> Cell
    word_slots,      \* Grid.word_slots
    call,            \* the most recent Grid call and whether it raised
    ncalls,          \* number of Grid calls made so far
    variables,       \* CrosswordCSP.variables
    neighbors,       \* CrosswordCSP.neighbors
    words_by_length, \* CrosswordCSP.words_by_length
    domains,         \* CrosswordCSP.domains
    used_words,      \* CrosswordCSP.used_words
    stats,           \* CrosswordCSP.stats
    word_generator,  \* CrosswordCSP.word_generator and the replies it gives
    use_inference,   \* the use_inference argument of solve()
    pc,              \* position of the solver
    queue,           \* the arc queue of the running ac3()
    ac3_entry,       \* the domains at the entry of the running ac3()
    inference_ok,    \* the value returned by the last ac3()
    assignment,      \* the assignment dict shared by all backtrack() frames
    stack,           \* the active backtrack() frames, innermost last
    result,          \* the value returned by solve(), once it has returned
    limiter,         \* the AICallbackLimiter shared by the AI requests
    ai,              \* the AIWordGenerator: client, caches, stats
    dispatched,      \* API requests sent so far, by prompt type
    ai_call,         \* the most recent direct limiter or generator call
    on_limit_reached,\* GenerationConfig.on_limit_reached
    timeout,         \* the timeout given to PuzzleValidator.validate
    elapsed,         \* wall-clock time since the validator was called
    validation,      \* the ValidationResult of the last validate()
    first_run        \* what the first of two runs of solve() returned

gridVars == <<size, cells, word_slots, call, ncalls>>
cspVars == <<variables, neighbors, words_by_length, domains, used_words,
             stats, word_generator, use_inference, pc, queue, ac3_entry,
             inference_ok, assignment, stack, result>>
aiVars == <<limiter, ai, dispatched, ai_call, on_limit_reached>>
valVars == <<timeout, elapsed, validation>>
runVars == <<first_run>>
vars == <<size, cells, word_slots, call, ncalls, variables, neighbors,
          words_by_length, domains, used_words, stats, word_generator,
          use_inference, pc, queue, ac3_entry, inference_ok, assignment,
          stack, result, limiter, ai, dispatched, ai_call, on_limit_reached,
          timeout, elapsed, validation, first_run>>

None == "None"

(***************************************************************************)
(* Bounds of the model.                                                    *)
(***************************************************************************)
\* Grid calls made in one behaviour of the grid specifications.
MaxCalls == 3
\* Largest number of words in the word list given to the solver.
MaxWords == 5
\* Largest number of words the word generator returns in one call.
MaxGenWords == 1
\* The word generator gives at most this many different replies in a run:
\* one per call, the last one from then on.
MaxReplies == 2
\* The statistics counters stop counting at this value.
MaxStat == 12

Min(a, b) == IF a < b THEN a ELSE b

RECURSIVE SeqToSet(_)
SeqToSet(s) == IF s = <<>> THEN {} ELSE {Head(s)} \cup SeqToSet(Tail(s))

(***************************************************************************)
(* models.py                                                               *)
(***************************************************************************)
EMPTY == "empty"
LETTER == "letter"
BLOCK == "block"
ACROSS == "across"
DOWN == "down"

\* Grid sizes of the grid specification, and of the one of set_block alone.
Sizes == {2, 3}
BlockSizes == {3, 4, 5}
\* The letters given to set_letter.
Letters == {"A", "b"}

\* str.upper() on one character.
upper(ch) ==
    CASE ch = "a" -> "A"
      [] ch = "b" -> "B"
      [] OTHER -> ch

\* Cell(row, col): cell_type EMPTY, letter None, number None.
Cell == [cell_type |-> EMPTY, letter |-> None, number |-> 0]

\* Grid.__post_init__: size x size fresh cells.
FreshCells(n) == [p \in (0 .. n - 1) \X (0 .. n - 1) |-> Cell]

\* Python list indexing: the position list[i] denotes in a list of n
\* elements, -1 when it raises IndexError.
PyIndex(i, n) ==
    IF i >= 0 /\ i < n THEN i
    ELSE IF i < 0 /\ i >= -n THEN n + i
    ELSE -1

is_block(cell) == cell.cell_type = BLOCK

is_valid_position(row, col) ==
    0 <= row /\ row < size /\ 0 <= col /\ col < size

\* set_block without the symmetric block.
set_block_no_mirror(cs, n, row, col) ==
    LET r == PyIndex(row, n)
        c == PyIndex(col, n)
    IN IF r < 0 \/ c < 0
       THEN [cells |-> cs, raised |-> TRUE]
       ELSE [cells |-> [cs EXCEPT ![<<r, c>>].cell_type = BLOCK],
             raised |-> FALSE]

\* The effect of Grid.set_block(row, col) on the cells of a grid of size n:
\* the cells it leaves and whether it raised IndexError.  A negative index
\* counts from the end of the list; the symmetric cell of a cell reached so
\* lies outside the grid.
set_block(cs, n, row, col) ==
    LET r == PyIndex(row, n)
        c == PyIndex(col, n)
        sr == PyIndex(n - 1 - row, n)
        sc == PyIndex(n - 1 - col, n)
    IN IF r < 0 \/ c < 0
       THEN [cells |-> cs, raised |-> TRUE]
       ELSE LET c1 == [cs EXCEPT ![<<r, c>>].cell_type = BLOCK]
            IN IF sr < 0 \/ sc < 0
               THEN [cells |-> c1, raised |-> TRUE]
               ELSE [cells |-> [c1 EXCEPT ![<<sr, sc>>].cell_type = BLOCK],
                     raised |-> FALSE]

\* The effect of Grid.set_letter(row, col, letter).
set_letter(cs, n, row, col, letter) ==
    LET r == PyIndex(row, n)
        c == PyIndex(col, n)
    IN IF r < 0 \/ c < 0
       THEN [cells |-> cs, raised |-> TRUE]
       ELSE [cells |-> [cs EXCEPT ![<<r, c>>].cell_type = LETTER,
                                  ![<<r, c>>].letter = upper(letter)],
             raised |-> FALSE]

\* WordSlot(start_row, start_col, direction, length, number).
WordSlot(row, col, dir, len, num) ==
    [start_row |-> row, start_col |-> col, direction |-> dir,
     length |-> len, number |-> num]

\* WordSlot._calculate_cells: the cells of a slot, in order.
slot_cells(slot) ==
    [i \in 1 .. slot.length |->
        IF slot.direction = ACROSS
        THEN <<slot.start_row, slot.start_col + (i - 1)>>
        ELSE <<slot.start_row + (i - 1), slot.start_col>>]

\* WordSlot.get_pattern: the letters of the slot's cells, "." where a cell
\* has no letter.
get_pattern(slot, cs) ==
    [i \in 1 .. slot.length |->
        LET cell == cs[slot_cells(slot)[i]]
        IN IF cell.letter # None THEN cell.letter ELSE "."]

\* WordSlot.overlaps_with: the first pair of 0-based indices (i, j) at which
\* the two slots share a cell, <<>> for None.
overlaps_with(s1, s2) ==
    LET c1 == slot_cells(s1)
        c2 == slot_cells(s2)
        hits == {p \in (1 .. s1.length) \X (1 .. s2.length) :
                    c1[p[1]] = c2[p[2]]}
    IN IF hits = {} THEN <<>>
       ELSE LET first == CHOOSE p \in hits :
                    \A q \in hits :
                        p[1] < q[1] \/ (p[1] = q[1] /\ p[2] <= q[2])
            IN <<first[1] - 1, first[2] - 1>>

\* The number of cells of the run of white cells starting at (row, col).
RECURSIVE run_length(_, _, _, _, _)
run_length(cs, n, row, col, dir) ==
    IF row >= n \/ col >= n THEN 0
    ELSE IF is_block(cs[<<row, col>>]) THEN 0
    ELSE 1 + (IF dir = ACROSS
              THEN run_length(cs, n, row, col + 1, dir)
              ELSE run_length(cs, n, row + 1, col, dir))

\* The scan of Grid.find_word_slots from cell k (row-major) on.
RECURSIVE scan_slots(_, _, _, _, _)
scan_slots(cs, n, k, number, slots) ==
    IF k = n * n THEN [slots |-> slots, cells |-> cs]
    ELSE
      LET row == k \div n
          col == k % n
      IN IF is_block(cs[<<row, col>>])
         THEN scan_slots(cs, n, k + 1, number, slots)
         ELSE
           LET la == IF col = 0 \/ is_block(cs[<<row, col - 1>>])
                     THEN run_length(cs, n, row, col, ACROSS) ELSE 0
               ld == IF row = 0 \/ is_block(cs[<<row - 1, col>>])
                     THEN run_length(cs, n, row, col, DOWN) ELSE 0
               starts_across == la >= 3
               starts_down == ld >= 3
               s1 == IF starts_across
                     THEN Append(slots, WordSlot(row, col, ACROSS, la, number))
                     ELSE slots
               s2 == IF starts_down
                     THEN Append(s1, WordSlot(row, col, DOWN, ld, number))
                     ELSE s1
           IN IF starts_across \/ starts_down
              THEN scan_slots([cs EXCEPT ![<<row, col>>].number = number],
                              n, k + 1, number + 1, s2)
              ELSE scan_slots(cs, n, k + 1, number, s2)

\* Grid.find_word_slots: the slots in scan order and the cells with the
\* numbers written by the scan.
find_word_slots(cs, n) == scan_slots(cs, n, 0, 1, <<>>)

\* matches_pattern(word, pattern).
matches_pattern(word, pattern) ==
    /\ Len(word) = Len(pattern)
    /\ \A i \in 1 .. Len(word) :
          upper(pattern[i]) # "." => upper(word[i]) = upper(pattern[i])

(***************************************************************************)
(* csp_solver.py                                                           *)
(***************************************************************************)
\* Longest word the dictionary buckets are kept for.
MaxWordLen == 4
Lengths == 0 .. MaxWordLen

\* str.upper() on a word.
word_upper(word) == [i \in 1 .. Len(word) |-> upper(word[i])]

\* str.strip(): drops the spaces at both ends.
RECURSIVE lstrip(_)
lstrip(word) ==
    IF word # <<>> /\ Head(word) = " " THEN lstrip(Tail(word)) ELSE word

RECURSIVE rstrip(_)
rstrip(word) ==
    IF word # <<>> /\ word[Len(word)] = " "
    THEN rstrip(SubSeq(word, 1, Len(word) - 1)) ELSE word

strip(word) == rstrip(lstrip(word))

\* CrosswordCSP.__init__: the buckets of the upper-cased, stripped words of
\* at least 3 letters, by length.
build_words_by_length(word_list) ==
    [len \in Lengths |->
        {word_upper_strip \in {strip(word_upper(w)) : w \in word_list} :
            Len(word_upper_strip) >= 3 /\ Len(word_upper_strip) = len}]

\* CrosswordCSP._build_constraint_graph: neighbors[s] lists (slot, index in
\* s, index in slot) for the slots that overlap s, in the order of variables.
RECURSIVE neighbor_list(_, _, _)
neighbor_list(s, vs, k) ==
    IF k > Len(vs) THEN <<>>
    ELSE LET t == vs[k]
             overlap == overlaps_with(s, t)
         IN (IF t # s /\ overlap # <<>>
             THEN << <<t, overlap[1], overlap[2]>> >>
             ELSE <<>>) \o neighbor_list(s, vs, k + 1)

_build_constraint_graph(vs) ==
    [s \in SeqToSet(vs) |-> neighbor_list(s, vs, 1)]

\* The values of result: solve() has not returned, returned None, returned
\* an assignment.
Pending == [kind |-> "pending", assignment |-> <<>>]
ReturnedNone == [kind |-> "None", assignment |-> <<>>]
Returned(asg) == [kind |-> "assignment", assignment |-> asg]

\* self.stats of a new solver.
InitStats ==
    [backtracks |-> 0, ac3_revisions |-> 0, words_requested |-> 0,
     ai_words_added |-> 0, assignments_tried |-> 0]

\* A statistics counter increased by d.
Bump(n, d) == Min(n + d, MaxStat)

\* The words given to the solver as word_list: upper and lower case, with
\* surrounding blanks, of 3 and 4 letters.
RawWords ==
    { <<"A", "A", "B">>, <<"A", "B", "A">>, <<"B", "A", "B">>,
      <<"A", "B", "B">>, <<"a", "b", "a", " ">>, <<"A", "B", "B", "A">> }

WordLists == {wl \in SUBSET RawWords : Cardinality(wl) <= MaxWords}

\* The words the word generator may return: of the slot's length or longer,
\* in upper or lower case.
GenPool ==
    { <<"A", "B", "B">>, <<"B", "B", "B">>, <<"A", "A", "A", "A">> }

GenLists == {ws \in SUBSET GenPool : Cardinality(ws) <= MaxGenWords}

\* word_generator = None.
NoGenerator ==
    [installed |-> FALSE, replies |-> <<{}>>, closure |-> FALSE, used |-> {}]

\* The word generators: a callable (pattern, count) -> list of words is
\* any function of its call history; the generators of the model reply to
\* the k-th call with the k-th list of replies, and to the later calls with
\* the last one.
Generators ==
    {NoGenerator} \cup
    {[installed |-> TRUE, replies |-> r, closure |-> FALSE, used |-> {}] :
        r \in UNION {[1 .. k -> GenLists] : k \in 1 .. MaxReplies}}

\* word_generator(pattern, count): the reply to this call.
generator_reply(gen, pattern, count) == Head(gen.replies)

\* The generator after a call.
generator_called(gen) ==
    IF Len(gen.replies) > 1
    THEN [gen EXCEPT !.replies = Tail(@)]
    ELSE gen

(***************************************************************************)
(* The AI call limiter (ai_limiter.py).  A limiter is a record of          *)
(* max_total, limits, counts and total_calls; total_tokens, call_history   *)
(* and start_time are written but never read by can_call, and no           *)
(* on_limit_reached_handler is installed.                                  *)
(***************************************************************************)
\* Largest max_total of a limiter.
MaxTotal == 2
\* Largest per-type limit of a limiter.
MaxCap == 1
\* Limiter and generator calls made in one behaviour of the oracle
\* specification.
MaxRequests == 2

\* The prompt types of the requests.
THEMED == "themed_word_list"
PATTERN == "pattern_word_generation"
CLUE == "clue_generation_single"
Kinds == {THEMED, PATTERN, CLUE}

\* AICallbackLimiter(max_total, limits).
NewLimiter(max_total, limits) ==
    [max_total |-> max_total, limits |-> limits, counts |-> <<>>,
     total_calls |-> 0]

\* The limits dicts: no limit configured, one for the pattern requests, one
\* for the pattern and the themed requests.
LimitConfigs ==
    UNION {[S -> 0 .. MaxCap] : S \in {{}, {PATTERN}, {PATTERN, THEMED}}}

\* counts is a defaultdict(int): reading counts[kind] creates the key.
touched(counts, kind) ==
    IF kind \in DOMAIN counts THEN counts ELSE counts @@ (kind :> 0)

\* can_call that only looks at the total limit.
can_call_total_only(lim, kind) ==
    [allowed |-> ~ (lim.total_calls >= lim.max_total), limiter |-> lim]

\* AICallbackLimiter.can_call(prompt_type): the value returned and the
\* limiter after the call.
can_call(lim, kind) ==
    IF lim.total_calls >= lim.max_total
    THEN [allowed |-> FALSE, limiter |-> lim]
    ELSE LET type_limit == IF kind \in DOMAIN lim.limits
                           THEN lim.limits[kind] ELSE lim.max_total
             read == [lim EXCEPT !.counts = touched(@, kind)]
         IN IF read.counts[kind] >= type_limit
            THEN [allowed |-> FALSE, limiter |-> read]
            ELSE [allowed |-> TRUE, limiter |-> read]

\* AICallbackLimiter.record_call(prompt_type, ...).
record_call(lim, kind) ==
    [lim EXCEPT !.counts = [touched(@, kind) EXCEPT ![kind] = @ + 1],
                !.total_calls = @ + 1]

(***************************************************************************)
(* The AI word generator (ai_word_generator.py).  The generator is a       *)
(* record of client (whether an API client exists), the pattern, theme and *)
(* clue caches, the api_calls and cache_hits statistics, and warned:       *)
(* whether the warning "AI limit reached" was logged.  The reply of        *)
(* the API to a request is an input of the model: the request raises, or   *)
(* answers a text, which is a list of lines.  Requests are made with one   *)
(* theme, so the key of the pattern cache is the upper-case pattern.       *)
(***************************************************************************)
\* Most lines in the text of an API response.
MaxLines == 1

\* The lines an API response is made of.
ApiPool == { <<"a", "b", "b">>, <<"B", "B", "B">> }

ApiTexts == UNION {[1 .. k -> ApiPool] : k \in 0 .. MaxLines}

\* What a dispatched API request does: raises, or answers a text.
ApiOutcomes ==
    {[raised |-> TRUE, lines |-> <<>>]} \cup
    {[raised |-> FALSE, lines |-> t] : t \in ApiTexts}

\* AIWordGenerator(api_key, limiter=...): client is None without API key.
NewAI(client) ==
    [client |-> client, word_cache |-> <<>>, theme_cache |-> {},
     clue_cache |-> {}, api_calls |-> 0, cache_hits |-> 0,
     warned |-> FALSE]

\* The value returned by _make_request: None, or the text of the response.
NoResponse == [none |-> TRUE, lines |-> <<>>]
Response(lines) == [none |-> FALSE, lines |-> lines]

\* Python's "not response" for a value returned by _make_request.
not_response(r) == r.none \/ r.lines = <<>>

\* _make_request without the check of the limiter.
_make_request_unchecked(a, lim, disp, kind, outcome) ==
    IF ~ a.client
    THEN [response |-> NoResponse, ai |-> a, limiter |-> lim,
          dispatched |-> disp, refused |-> FALSE]
    ELSE [response |-> IF outcome.raised THEN NoResponse
                       ELSE Response(outcome.lines),
          ai |-> [a EXCEPT !.api_calls = Bump(@, 1)],
          limiter |-> record_call(lim, kind),
          dispatched |-> [disp EXCEPT ![kind] = @ + 1],
          refused |-> FALSE]

\* AIWordGenerator._make_request(prompt_type, ...) when the API does
\* outcome: the response, the generator, the limiter and the requests
\* dispatched afterwards, and whether the limiter refused the request.
_make_request(a, lim, disp, kind, outcome) ==
    IF ~ a.client
    THEN [response |-> NoResponse, ai |-> a, limiter |-> lim,
          dispatched |-> disp, refused |-> FALSE]
    ELSE LET checked == can_call(lim, kind)
         IN IF ~ checked.allowed
            THEN [response |-> NoResponse,
                  ai |-> [a EXCEPT !.warned = TRUE],
                  limiter |-> checked.limiter, dispatched |-> disp,
                  refused |-> TRUE]
            ELSE [response |-> IF outcome.raised THEN NoResponse
                               ELSE Response(outcome.lines),
                  ai |-> [a EXCEPT !.api_calls = Bump(@, 1)],
                  limiter |-> record_call(checked.limiter, kind),
                  dispatched |-> [disp EXCEPT ![kind] = @ + 1],
                  refused |-> FALSE]

\* AIWordGenerator._matches_pattern(word, pattern).
_matches_pattern(word, pattern) ==
    IF Len(word) # Len(pattern) THEN FALSE
    ELSE \A i \in 1 .. Len(word) :
            ~ (pattern[i] # "." /\ word[i] # pattern[i])

\* re.sub(r'[^A-Z]', '', word): the letters of the model's alphabet.
letters_only(word) == SelectSeq(word, LAMBDA ch : ch \in {"A", "B"})

\* AIWordGenerator._parse_pattern_response: the line-by-line parse of a
\* text that is a list of words.
RECURSIVE _parse_pattern_response(_, _, _)
_parse_pattern_response(lines, pattern, used) ==
    IF lines = <<>> THEN <<>>
    ELSE LET word == letters_only(word_upper(Head(lines)))
         IN (IF /\ Len(word) = Len(pattern)
                /\ _matches_pattern(word, pattern)
                /\ word \notin used
             THEN <<word>> ELSE <<>>)
            \o _parse_pattern_response(Tail(lines), pattern, used)

\* The slice words[:count], for count >= 0.
first(words, count) == SubSeq(words, 1, Min(count, Len(words)))

\* [w for w in cached if w.upper() not in used_words].
RECURSIVE not_used(_, _)
not_used(cached, used) ==
    IF cached = <<>> THEN <<>>
    ELSE (IF word_upper(Head(cached)) \notin used
          THEN <<Head(cached)>> ELSE <<>>)
         \o not_used(Tail(cached), used)

\* AIWordGenerator.get_words_matching_pattern(pattern, count, theme,
\* used_words) when the API, if asked, does outcome: the words returned,
\* the generator, the limiter and the requests dispatched afterwards, and
\* whether the limiter refused the request.
get_words_matching_pattern(a, lim, disp, pattern, count, used, outcome) ==
    LET key == word_upper(pattern)
        available == IF key \in DOMAIN a.word_cache
                     THEN not_used(a.word_cache[key], used) ELSE <<>>
        request == _make_request(a, lim, disp, PATTERN, outcome)
        words == _parse_pattern_response(request.response.lines, key, used)
    IN IF key \in DOMAIN a.word_cache /\ available # <<>>
       THEN [words |-> first(available, count),
             ai |-> [a EXCEPT !.cache_hits = Bump(@, 1)],
             limiter |-> lim, dispatched |-> disp, refused |-> FALSE]
       ELSE IF ~ a.client
       THEN [words |-> <<>>, ai |-> a, limiter |-> lim,
             dispatched |-> disp, refused |-> FALSE]
       ELSE IF not_response(request.response)
       THEN [words |-> <<>>, ai |-> request.ai,
             limiter |-> request.limiter,
             dispatched |-> request.dispatched,
             refused |-> request.refused]
       ELSE [words |-> first(words, count),
             ai |-> IF words # <<>>
                    THEN [request.ai EXCEPT
                             !.word_cache = (key :> words) @@ @]
                    ELSE request.ai,
             limiter |-> request.limiter,
             dispatched |-> request.dispatched,
             refused |-> FALSE]

\* The one cache key of the themed word lists, and the fallback list.
ThemeKey == "theme:30:3:15"
Fallback == << <<"A", "R", "E", "A">> >>

\* AIWordGenerator.generate_themed_words(theme, ...): a text of the API is
\* parsed into the words of its lines; the list returned on a cache hit is
\* left out.
generate_themed_words(a, lim, disp, outcome) ==
    LET request == _make_request(a, lim, disp, THEMED, outcome)
        words == [i \in 1 .. Len(request.response.lines) |->
                     word_upper(request.response.lines[i])]
    IN IF ThemeKey \in a.theme_cache
       THEN [words |-> <<>>, ai |-> [a EXCEPT !.cache_hits = Bump(@, 1)],
             limiter |-> lim, dispatched |-> disp, refused |-> FALSE]
       ELSE IF ~ a.client
       THEN [words |-> Fallback, ai |-> a, limiter |-> lim,
             dispatched |-> disp, refused |-> FALSE]
       ELSE IF not_response(request.response)
       THEN [words |-> Fallback, ai |-> request.ai,
             limiter |-> request.limiter,
             dispatched |-> request.dispatched,
             refused |-> request.refused]
       ELSE [words |-> words,
             ai |-> [request.ai EXCEPT !.theme_cache = @ \cup {ThemeKey}],
             limiter |-> request.limiter,
             dispatched |-> request.dispatched,
             refused |-> FALSE]

\* AIWordGenerator.generate_clue(word): the clue is the text of the
\* response; the value returned is left out.
generate_clue(a, lim, disp, word, outcome) ==
    LET request == _make_request(a, lim, disp, CLUE, outcome)
    IN IF word_upper(word) \in a.clue_cache
       THEN [words |-> <<>>, ai |-> [a EXCEPT !.cache_hits = Bump(@, 1)],
             limiter |-> lim, dispatched |-> disp, refused |-> FALSE]
       ELSE IF ~ a.client
       THEN [words |-> <<>>, ai |-> a, limiter |-> lim,
             dispatched |-> disp, refused |-> FALSE]
       ELSE [words |-> <<>>,
             ai |-> IF not_response(request.response) THEN request.ai
                    ELSE [request.ai EXCEPT
                             !.clue_cache = @ \cup {word_upper(word)}],
             limiter |-> request.limiter,
             dispatched |-> request.dispatched,
             refused |-> request.refused]

\* The record of a limiter or generator call: the method, the number of
\* calls so far, the arguments, the words or the boolean returned, whether
\* the limiter refused the request of the call and whether the request was
\* sent and raised.
AiCall(op, n, kind, pattern, count, used, words, allowed, refused, raised) ==
    [op |-> op, n |-> n, kind |-> kind, pattern |-> pattern,
     count |-> count, used |-> used, words |-> words, allowed |-> allowed,
     refused |-> refused, raised |-> raised]

NoAiCall == AiCall("none", 0, "none", <<>>, 0, {}, <<>>, TRUE, FALSE, FALSE)

\* No request has been sent.
NoneDispatched == [k \in Kinds |-> 0]

\* The limiter and generator variables while no generator exists.
NoOracle ==
    /\ limiter = NewLimiter(0, <<>>)
    /\ ai = NewAI(FALSE)
    /\ dispatched = NoneDispatched
    /\ ai_call = NoAiCall
    /\ on_limit_reached = "fallback"

\* create_pattern_word_generator(ai_generator, theme, set()): the closure
\* given to the solver as word_generator, with its set of used words.
PatternWordGenerator ==
    [installed |-> TRUE, replies |-> <<{}>>, closure |-> TRUE, used |-> {}]

\* What can happen in a call of the word generator: the API outcomes for
\* the closure, nothing to choose for a scripted callable.
outcomes_of(gen) ==
    IF gen.closure THEN ApiOutcomes
    ELSE {[raised |-> FALSE, lines |-> <<>>]}

\* self.word_generator(pattern, count): the words returned, and the
\* generator, the AI generator, the limiter and the requests dispatched
\* after the call.
generator_call(gen, a, lim, disp, pattern, count, outcome) ==
    IF gen.closure
    THEN LET done == get_words_matching_pattern(a, lim, disp, pattern,
                                                count, gen.used, outcome)
             words == SeqToSet(done.words)
         IN [words |-> words,
             word_generator |->
                 [gen EXCEPT !.used = @ \cup {word_upper(w) : w \in words}],
             ai |-> done.ai, limiter |-> done.limiter,
             dispatched |-> done.dispatched]
    ELSE [words |-> generator_reply(gen, pattern, count),
          word_generator |-> generator_called(gen),
          ai |-> a, limiter |-> lim, dispatched |-> disp]

\* The validator's variables while validate() has not been called.
NotValidated ==
    [called |-> FALSE, returned |-> FALSE, check_fillability |-> FALSE,
     valid |-> TRUE, fillable |-> FALSE, errors |-> {}]

NoValidation ==
    /\ timeout = 0
    /\ elapsed = 0
    /\ validation = NotValidated

\* The record of a first run of solve(), while there is none.
NotRun == [finished |-> FALSE, result |-> Pending, stats |-> InitStats]

NoFirstRun == first_run = NotRun

\* The grids given to the solver: the set_block and set_letter calls that
\* build them.
TestGrids ==
    { [size |-> 3, blocks |-> << <<1, 1>> >>, letters |-> <<>>],
      [size |-> 3, blocks |-> << <<0, 0>> >>, letters |-> <<>>],
      [size |-> 3, blocks |-> << <<0, 1>> >>, letters |-> <<>>],
      [size |-> 3, blocks |-> << <<0, 0>> >>,
       letters |-> << <<1, 1, "b">> >>],
      [size |-> 3, blocks |-> << <<0, 1>> >>,
       letters |-> << <<0, 0, "A">>, <<1, 0, "A">>, <<2, 0, "B">> >>] }

RECURSIVE apply_blocks(_, _, _)
apply_blocks(cs, n, blocks) ==
    IF blocks = <<>> THEN cs
    ELSE apply_blocks(set_block(cs, n, Head(blocks)[1], Head(blocks)[2]).cells,
                      n, Tail(blocks))

RECURSIVE apply_letters(_, _, _)
apply_letters(cs, n, letters) ==
    IF letters = <<>> THEN cs
    ELSE apply_letters(set_letter(cs, n, Head(letters)[1], Head(letters)[2],
                                  Head(letters)[3]).cells,
                       n, Tail(letters))

build_grid(g) ==
    apply_letters(apply_blocks(FreshCells(g.size), g.size, g.blocks),
                  g.size, g.letters)

\* CrosswordCSP(grid, word_list, word_generator), before solve(), for a
\* grid, a word list and a word generator of the sets.
NewSolver(grids, word_lists, generators) ==
    \E g \in grids, wl \in word_lists,
       gen \in generators, inference \in BOOLEAN :
        LET found == find_word_slots(build_grid(g), g.size)
            wbl == build_words_by_length(wl)
        IN /\ size = g.size
           /\ cells = found.cells
           /\ word_slots = found.slots
           /\ call = [op |-> "find_word_slots", in_bounds |-> TRUE,
                      raised |-> FALSE]
           /\ ncalls = 0
           /\ variables = found.slots
           /\ neighbors = _build_constraint_graph(found.slots)
           /\ words_by_length = wbl
           /\ domains = [s \in SeqToSet(found.slots) |-> wbl[s.length]]
           /\ used_words = {}
           /\ stats = InitStats
           /\ word_generator = gen
           /\ use_inference = inference
           /\ pc = "solve"
           /\ queue = <<>>
           /\ ac3_entry = <<>>
           /\ inference_ok = TRUE
           /\ assignment = <<>>
           /\ stack = <<>>
           /\ result = Pending
           /\ NoOracle
           /\ NoValidation
           /\ NoFirstRun

\* The 0-based character word[i].
char(word, i) == word[i + 1]

\* CrosswordCSP.enforce_node_consistency.
enforce_node_consistency(D, cs) ==
    [slot \in DOMAIN D |->
        LET pattern == get_pattern(slot, cs)
        IN IF \A i \in 1 .. Len(pattern) : pattern[i] # "."
           THEN {pattern}
           ELSE {word \in D[slot] : matches_pattern(word, pattern)}]

\* revise looking for the support at slot_x's index in both words.
revise_wrong_index(D, slot_x, slot_y) ==
    LET overlap == overlaps_with(slot_x, slot_y)
    IN IF overlap = <<>>
       THEN [domains |-> D, removed |-> 0, revised |-> FALSE]
       ELSE
         LET idx_x == overlap[1]
             words_to_remove ==
                 {word_x \in D[slot_x] :
                     ~ \E word_y \in D[slot_y] :
                          /\ word_y # word_x
                          /\ char(word_y, idx_x) = char(word_x, idx_x)}
         IN [domains |-> [D EXCEPT ![slot_x] = @ \ words_to_remove],
             removed |-> Cardinality(words_to_remove),
             revised |-> words_to_remove # {}]

\* revise filtering the dictionary bucket of slot_x's length, not the
\* current domain of slot_x.
revise_from_bucket(D, slot_x, slot_y) ==
    LET overlap == overlaps_with(slot_x, slot_y)
    IN IF overlap = <<>>
       THEN [domains |-> D, removed |-> 0, revised |-> FALSE]
       ELSE
         LET idx_x == overlap[1]
             idx_y == overlap[2]
             words_to_remove ==
                 {word_x \in D[slot_x] :
                     ~ \E word_y \in D[slot_y] :
                          /\ word_y # word_x
                          /\ char(word_y, idx_y) = char(word_x, idx_x)}
         IN [domains |-> [D EXCEPT ![slot_x] =
                             words_by_length[slot_x.length] \ words_to_remove],
             removed |-> Cardinality(words_to_remove),
             revised |-> words_to_remove # {}]

\* CrosswordCSP.revise(slot_x, slot_y) on the domains D: the revised
\* domains, the number of words removed and the value returned.
revise(D, slot_x, slot_y) ==
    LET overlap == overlaps_with(slot_x, slot_y)
    IN IF overlap = <<>>
       THEN [domains |-> D, removed |-> 0, revised |-> FALSE]
       ELSE
         LET idx_x == overlap[1]
             idx_y == overlap[2]
             words_to_remove ==
                 {word_x \in D[slot_x] :
                     ~ \E word_y \in D[slot_y] :
                          /\ word_y # word_x
                          /\ char(word_y, idx_y) = char(word_x, idx_x)}
         IN [domains |-> [D EXCEPT ![slot_x] = @ \ words_to_remove],
             removed |-> Cardinality(words_to_remove),
             revised |-> words_to_remove # {}]

\* The arcs (neighbor, slot) of the neighbors of slot other than except,
\* in the order of neighbors[slot]; with except = slot, of every neighbor.
RECURSIVE arcs_into(_, _, _)
arcs_into(nbrs, slot, except) ==
    IF nbrs = <<>> THEN <<>>
    ELSE (IF Head(nbrs)[1] # except
          THEN << <<Head(nbrs)[1], slot>> >> ELSE <<>>)
         \o arcs_into(Tail(nbrs), slot, except)

\* The arcs (slot, neighbor) of the neighbors of slot.
RECURSIVE arcs_from(_, _)
arcs_from(nbrs, slot) ==
    IF nbrs = <<>> THEN <<>>
    ELSE << <<slot, Head(nbrs)[1]>> >> \o arcs_from(Tail(nbrs), slot)

\* ac3(arcs = None): every arc, slot by slot in the order of variables.
RECURSIVE all_arcs(_, _)
all_arcs(vs, nb) ==
    IF vs = <<>> THEN <<>>
    ELSE arcs_from(nb[Head(vs)], Head(vs)) \o all_arcs(Tail(vs), nb)

\* CrosswordCSP.solve up to the call of the initial ac3().
solve ==
    /\ pc = "solve"
    /\ domains' = enforce_node_consistency(domains, cells)
    /\ queue' = all_arcs(variables, neighbors)
    /\ ac3_entry' = domains'
    /\ pc' = "ac3"
    /\ UNCHANGED <<gridVars, aiVars, valVars, runVars,
                   variables, neighbors, words_by_length,
                   used_words, stats, word_generator, use_inference,
                   inference_ok, assignment, stack, result>>

\* One iteration of the while loop of CrosswordCSP.ac3: pops an arc,
\* revises, asks the word generator when the domain was emptied, and either
\* returns False or queues the arcs of the other neighbors.
ac3_iterate ==
    /\ pc = "ac3"
    /\ queue # <<>>
    /\ \E outcome \in outcomes_of(word_generator) :
       LET slot_x == Head(queue)[1]
           slot_y == Head(queue)[2]
           rev == revise(domains, slot_x, slot_y)
           emptied == rev.revised /\ rev.domains[slot_x] = {}
           asked == emptied /\ word_generator.installed
           pattern == get_pattern(slot_x, cells)
           called == generator_call(word_generator, ai, limiter, dispatched,
                                    pattern, 20, outcome)
           new_words == called.words
           valid_new == {w \in new_words : word_upper(w) \notin used_words}
           refilled == asked /\ valid_new # {}
           requeued == Tail(queue) \o
                       arcs_into(neighbors[slot_x], slot_x, slot_y)
       IN /\ stats' = [stats EXCEPT
                !.ac3_revisions = Bump(@, rev.removed),
                !.words_requested = IF asked THEN Bump(@, 1) ELSE @,
                !.ai_words_added =
                    IF refilled THEN Bump(@, Cardinality(valid_new)) ELSE @]
          /\ word_generator' = IF asked THEN called.word_generator
                               ELSE word_generator
          /\ ai' = IF asked THEN called.ai ELSE ai
          /\ limiter' = IF asked THEN called.limiter ELSE limiter
          /\ dispatched' = IF asked THEN called.dispatched ELSE dispatched
          /\ domains' = IF refilled
                        THEN [rev.domains EXCEPT ![slot_x] = valid_new]
                        ELSE rev.domains
          /\ words_by_length' =
                IF refilled
                THEN [words_by_length EXCEPT
                        ![slot_x.length] = @ \cup valid_new]
                ELSE words_by_length
          /\ IF emptied /\ ~ refilled
             THEN /\ queue' = <<>>
                  /\ pc' = "ac3_done"
                  /\ inference_ok' = FALSE
             ELSE /\ queue' = IF rev.revised THEN requeued ELSE Tail(queue)
                  /\ UNCHANGED <<pc, inference_ok>>
    /\ UNCHANGED <<gridVars, valVars, runVars, ai_call, on_limit_reached,
                   variables, neighbors, used_words,
                   use_inference, ac3_entry, assignment, stack, result>>

\* CrosswordCSP.ac3: the queue is empty, ac3 returns True.
ac3_return ==
    /\ pc = "ac3"
    /\ queue = <<>>
    /\ pc' = "ac3_done"
    /\ inference_ok' = TRUE
    /\ UNCHANGED <<gridVars, aiVars, valVars, runVars,
                   variables, neighbors, words_by_length, domains,
                   used_words, stats, word_generator, use_inference, queue,
                   ac3_entry, assignment, stack, result>>

\* CrosswordCSP.solve after the initial ac3(): returns None when it failed,
\* calls backtrack() otherwise.
solve_search ==
    /\ pc = "ac3_done"
    /\ stack = <<>>
    /\ IF inference_ok
       THEN pc' = "backtrack" /\ UNCHANGED result
       ELSE pc' = "done" /\ result' = ReturnedNone
    /\ UNCHANGED <<gridVars, aiVars, valVars, runVars,
                   variables, neighbors, words_by_length, domains,
                   used_words, stats, word_generator, use_inference, queue,
                   ac3_entry, inference_ok, assignment, stack>>

\* The slots of a list that are not keys of the assignment, in order.
RECURSIVE unassigned_of(_, _)
unassigned_of(vs, asg) ==
    IF vs = <<>> THEN <<>>
    ELSE (IF Head(vs) \in DOMAIN asg THEN <<>> ELSE <<Head(vs)>>)
         \o unassigned_of(Tail(vs), asg)

\* CrosswordCSP.select_unassigned_variable: the first slot of the unassigned
\* ones that minimises (len(domain), -len(neighbors)); None when all slots
\* are assigned.
select_unassigned_variable(asg, D) ==
    LET unassigned == unassigned_of(variables, asg)
        less(a, b) ==
            \/ Cardinality(D[a]) < Cardinality(D[b])
            \/ /\ Cardinality(D[a]) = Cardinality(D[b])
               /\ Len(neighbors[a]) > Len(neighbors[b])
    IN IF unassigned = <<>> THEN None
       ELSE LET k == CHOOSE i \in 1 .. Len(unassigned) :
                       /\ \A j \in 1 .. Len(unassigned) :
                             ~ less(unassigned[j], unassigned[i])
                       /\ \A j \in 1 .. (i - 1) :
                             less(unassigned[i], unassigned[j])
            IN unassigned[k]

\* count_conflicts(word) of CrosswordCSP.order_domain_values: the words of
\* the unassigned neighbors' domains that differ from word at the crossing.
RECURSIVE count_conflicts(_, _, _, _)
count_conflicts(nbrs, word, asg, D) ==
    IF nbrs = <<>> THEN 0
    ELSE LET neighbor == Head(nbrs)[1]
             idx_self == Head(nbrs)[2]
             idx_neighbor == Head(nbrs)[3]
         IN (IF neighbor \in DOMAIN asg THEN 0
             ELSE Cardinality({neighbor_word \in D[neighbor] :
                     char(neighbor_word, idx_neighbor) # char(word, idx_self)}))
            + count_conflicts(Tail(nbrs), word, asg, D)

\* CrosswordCSP.order_domain_values: the sort key of each word of the
\* slot's domain.  sorted() is stable and the domain is a set, so words of
\* equal key come in the iteration order of the set, which is any order.
order_domain_values(slot, asg, D) ==
    [word \in D[slot] |-> count_conflicts(neighbors[slot], word, asg, D)]

\* is_consistent without the check of the crossing letters.
is_consistent_no_crossing(slot, word, asg) ==
    word \notin {asg[s] : s \in DOMAIN asg}

\* is_consistent without the check that the word is not used yet.
is_consistent_no_unique(slot, word, asg) ==
    \A k \in 1 .. Len(neighbors[slot]) :
        LET neighbor == neighbors[slot][k][1]
            idx_self == neighbors[slot][k][2]
            idx_neighbor == neighbors[slot][k][3]
        IN neighbor \in DOMAIN asg =>
              char(word, idx_self) = char(asg[neighbor], idx_neighbor)

\* CrosswordCSP.is_consistent.
is_consistent(slot, word, asg) ==
    /\ word \notin {asg[s] : s \in DOMAIN asg}
    /\ \A k \in 1 .. Len(neighbors[slot]) :
          LET neighbor == neighbors[slot][k][1]
              idx_self == neighbors[slot][k][2]
              idx_neighbor == neighbors[slot][k][3]
          IN neighbor \in DOMAIN asg =>
                char(word, idx_self) = char(asg[neighbor], idx_neighbor)

\* The local word of a frame whose for loop has not started.
NoWord == <<>>

\* The innermost backtrack() frame.  A frame holds the locals slot, word and
\* saved_domains, the sort keys of the values (key) and the values the for
\* loop has not reached (remaining); pre_domains, pre_assignment and
\* pre_added record the domains, the assignment and stats.ai_words_added as
\* they were just before the last value was committed.
Top == stack[Len(stack)]

\* CrosswordCSP.backtrack, from its entry to the for loop: returns the
\* assignment through every frame when it is complete, selects a slot and
\* orders its values otherwise.
backtrack ==
    /\ pc = "backtrack"
    /\ IF Cardinality(DOMAIN assignment) = Len(variables)
       THEN /\ result' = Returned(assignment)
            /\ stack' = <<>>
            /\ pc' = "done"
       ELSE LET slot == select_unassigned_variable(assignment, domains)
            IN /\ stack' = Append(stack,
                      [slot |-> slot,
                       key |-> order_domain_values(slot, assignment, domains),
                       remaining |-> domains[slot],
                       word |-> NoWord,
                       saved_domains |-> None,
                       pre_domains |-> domains,
                       pre_assignment |-> assignment,
                       pre_added |-> stats.ai_words_added])
               /\ pc' = "loop"
               /\ UNCHANGED result
    /\ UNCHANGED <<gridVars, aiVars, valVars, runVars,
                   variables, neighbors, words_by_length, domains,
                   used_words, stats, word_generator, use_inference, queue,
                   ac3_entry, inference_ok, assignment>>

\* The snapshot backtrack() takes of the domains D before inference.
saved_domains_of(D) == IF use_inference THEN D ELSE None

\* One iteration of the for loop of backtrack(): the next word in sorted
\* order is tried and, when consistent, committed; inference or the
\* recursive call follows.
backtrack_try ==
    /\ pc = "loop"
    /\ Top.remaining # {}
    /\ \E word \in Top.remaining :
         /\ \A other \in Top.remaining : Top.key[word] <= Top.key[other]
         /\ stats' = [stats EXCEPT !.assignments_tried = Bump(@, 1)]
         /\ IF is_consistent(Top.slot, word, assignment)
            THEN /\ assignment' =
                      [s \in DOMAIN assignment \cup {Top.slot} |->
                          IF s = Top.slot THEN word ELSE assignment[s]]
                 /\ stack' = [stack EXCEPT ![Len(stack)] =
                      [@ EXCEPT !.remaining = @ \ {word},
                                !.word = word,
                                !.saved_domains = saved_domains_of(domains),
                                !.pre_domains = domains,
                                !.pre_assignment = assignment,
                                !.pre_added = stats.ai_words_added]]
                 /\ IF use_inference
                    THEN /\ domains' = [domains EXCEPT ![Top.slot] = {word}]
                         /\ queue' = arcs_into(neighbors[Top.slot], Top.slot,
                                               Top.slot)
                         /\ ac3_entry' = domains'
                         /\ pc' = "ac3"
                    ELSE /\ pc' = "backtrack"
                         /\ UNCHANGED <<domains, queue, ac3_entry>>
            ELSE /\ stack' = [stack EXCEPT ![Len(stack)].remaining =
                                               @ \ {word}]
                 /\ UNCHANGED <<assignment, domains, queue, ac3_entry, pc>>
    /\ UNCHANGED <<gridVars, aiVars, valVars, runVars,
                   variables, neighbors, words_by_length,
                   used_words, word_generator, use_inference, inference_ok,
                   result>>

\* backtrack() after the inference of a committed value: recurses when
\* ac3() returned True, backtracks otherwise.
backtrack_inferred ==
    /\ pc = "ac3_done"
    /\ stack # <<>>
    /\ pc' = IF inference_ok THEN "backtrack" ELSE "undo"
    /\ UNCHANGED <<gridVars, aiVars, valVars, runVars,
                   variables, neighbors, words_by_length, domains,
                   used_words, stats, word_generator, use_inference, queue,
                   ac3_entry, inference_ok, assignment, stack, result>>

\* backtrack() without the restoration of the domains.
restored_domains_kept(frame) == domains

\* The domains backtrack() continues with after a failed branch.
restored_domains(frame) ==
    IF use_inference THEN frame.saved_domains ELSE domains

\* backtrack() after a failed branch: counts a backtrack, removes the slot
\* from the assignment and restores the saved domains.
backtrack_undo ==
    /\ pc = "undo"
    /\ stats' = [stats EXCEPT !.backtracks = Bump(@, 1)]
    /\ assignment' = [s \in DOMAIN assignment \ {Top.slot} |-> assignment[s]]
    /\ domains' = restored_domains(Top)
    /\ pc' = "loop"
    /\ UNCHANGED <<gridVars, aiVars, valVars, runVars,
                   variables, neighbors, words_by_length,
                   used_words, word_generator, use_inference, queue,
                   ac3_entry, inference_ok, stack, result>>

\* backtrack() with every value tried: returns None, to solve() from the
\* outermost frame and to the calling frame's failed branch otherwise.
backtrack_exhausted ==
    /\ pc = "loop"
    /\ Top.remaining = {}
    /\ stack' = SubSeq(stack, 1, Len(stack) - 1)
    /\ IF Len(stack) = 1
       THEN pc' = "done" /\ result' = ReturnedNone
       ELSE pc' = "undo" /\ UNCHANGED result
    /\ UNCHANGED <<gridVars, aiVars, valVars, runVars,
                   variables, neighbors, words_by_length, domains,
                   used_words, stats, word_generator, use_inference, queue,
                   ac3_entry, inference_ok, assignment>>

Init == NewSolver(TestGrids, WordLists, Generators)

Next ==
    \/ solve
    \/ ac3_iterate
    \/ ac3_return
    \/ solve_search
    \/ backtrack
    \/ backtrack_try
    \/ backtrack_inferred
    \/ backtrack_undo
    \/ backtrack_exhausted

Spec == Init /\ [][Next]_vars

\* The 1-based index of a cell in a slot that covers it.
index_in(slot, pos) ==
    CHOOSE i \in 1 .. slot.length : slot_cells(slot)[i] = pos

\* The slots of a solution that cover a cell.
covering_slots(solution, pos) ==
    {slot \in DOMAIN solution :
        \E i \in 1 .. slot.length : slot_cells(slot)[i] = pos}

\* CrosswordCSP.apply_solution(solution), with the solution solve() has
\* returned: every slot's word is written cell by cell as set_letter does,
\* the letter in upper case.  The slots are written in the order of the
\* dict, so a cell of two slots keeps the letter of the one written last:
\* last_direction says which one that is.
apply_solution ==
    /\ pc = "done"
    /\ result.kind = "assignment"
    /\ LET solution == result.assignment
           crossed == {pos \in DOMAIN cells :
                          Cardinality(covering_slots(solution, pos)) > 1}
       IN \E last_direction \in [crossed -> {ACROSS, DOWN}] :
            cells' =
              [pos \in DOMAIN cells |->
                 LET over == covering_slots(solution, pos)
                 IN IF over = {} THEN cells[pos]
                    ELSE LET slot == CHOOSE w \in over :
                                 pos \in crossed =>
                                     w.direction = last_direction[pos]
                             letter == solution[slot][index_in(slot, pos)]
                         IN [cells[pos] EXCEPT !.cell_type = LETTER,
                                               !.letter = upper(letter)]]
    /\ pc' = "applied"
    /\ UNCHANGED <<size, word_slots, call, ncalls, aiVars, valVars, runVars,
                   variables, neighbors, words_by_length, domains,
                   used_words, stats, word_generator, use_inference, queue,
                   ac3_entry, inference_ok, assignment, stack, result>>

\* solve() followed by apply_solution() on the solution it returned.
ApplyNext == Next \/ apply_solution

ApplySpec == Init /\ [][ApplyNext]_vars

\* A second CrosswordCSP(grid, word_list) on the grid and the word list of
\* the first one, which had no word generator and has returned: what the
\* first solve() returned and counted is recorded, the solver starts as
\* constructed.  The buckets of words are those of the word list, no word
\* having been added to them.
solve_again ==
    /\ pc = "done"
    /\ ~ first_run.finished
    /\ ~ word_generator.installed
    /\ first_run' = [finished |-> TRUE, result |-> result, stats |-> stats]
    /\ domains' = [s \in SeqToSet(variables) |-> words_by_length[s.length]]
    /\ stats' = InitStats
    /\ pc' = "solve"
    /\ queue' = <<>>
    /\ ac3_entry' = <<>>
    /\ inference_ok' = TRUE
    /\ assignment' = <<>>
    /\ stack' = <<>>
    /\ result' = Pending
    /\ UNCHANGED <<gridVars, aiVars, valVars, variables, neighbors,
                   words_by_length, used_words, word_generator,
                   use_inference>>

\* Two runs of solve() on the same grid and word list, with no word
\* generator.
TwoRunsInit == NewSolver(TestGrids, WordLists, {NoGenerator})

TwoRunsNext == Next \/ solve_again

TwoRunsSpec == TwoRunsInit /\ [][TwoRunsNext]_vars

\* The solver runs on one thread and is never suspended for good: a step
\* that can be taken is taken.  The runs are those of the grids without
\* prefilled letters, the word lists of at most two of the first words and
\* the generators that give the same reply to every call.
FairInit ==
    NewSolver({g \in TestGrids : g.letters = <<>>},
              {wl \in WordLists :
                  /\ Cardinality(wl) <= 2
                  /\ wl \subseteq {<<"A", "A", "B">>, <<"A", "B", "A">>,
                                    <<"A", "B", "B">>}},
              {gen \in Generators : Len(gen.replies) = 1})

FairSpec == FairInit /\ [][Next]_vars /\ WF_vars(Next)

\* CrosswordGenerator._fill_grid: the solver is given the closure of
\* create_pattern_word_generator when the AI generator has a client and no
\* word generator otherwise, and runs solve(use_inference=True).  The
\* limiter has any max_total and limits, the policy is either value of
\* on_limit_reached.
FillWords == { <<"A", "A", "B">>, <<"A", "B", "A">>, <<"A", "B", "B">> }

FillInit ==
    \E g \in {t \in TestGrids : t.letters = <<>>},
       wl \in {ws \in SUBSET FillWords : Cardinality(ws) <= 2},
       client \in BOOLEAN, max_total \in 0 .. MaxTotal,
       limits \in LimitConfigs, policy \in {"fallback", "fail"} :
        LET found == find_word_slots(build_grid(g), g.size)
            wbl == build_words_by_length(wl)
        IN /\ size = g.size
           /\ cells = found.cells
           /\ word_slots = found.slots
           /\ call = [op |-> "find_word_slots", in_bounds |-> TRUE,
                      raised |-> FALSE]
           /\ ncalls = 0
           /\ variables = found.slots
           /\ neighbors = _build_constraint_graph(found.slots)
           /\ words_by_length = wbl
           /\ domains = [s \in SeqToSet(found.slots) |-> wbl[s.length]]
           /\ used_words = {}
           /\ stats = InitStats
           /\ word_generator = IF client THEN PatternWordGenerator
                                ELSE NoGenerator
           /\ use_inference = TRUE
           /\ pc = "solve"
           /\ queue = <<>>
           /\ ac3_entry = <<>>
           /\ inference_ok = TRUE
           /\ assignment = <<>>
           /\ stack = <<>>
           /\ result = Pending
           /\ limiter = NewLimiter(max_total, limits)
           /\ ai = NewAI(client)
           /\ dispatched = NoneDispatched
           /\ ai_call = NoAiCall
           /\ on_limit_reached = policy
           /\ NoValidation
           /\ NoFirstRun

FillSpec == FillInit /\ [][Next]_vars

(***************************************************************************)
(* The grid on its own: any calls of set_block, set_letter and             *)
(* find_word_slots on a fresh grid, with indices inside and outside the    *)
(* grid.                                                                   *)
(***************************************************************************)
\* The solver's variables while no solver exists.
NoSolver ==
    /\ variables = <<>>
    /\ neighbors = <<>>
    /\ words_by_length = build_words_by_length({})
    /\ domains = <<>>
    /\ used_words = {}
    /\ stats = InitStats
    /\ word_generator = NoGenerator
    /\ use_inference = TRUE
    /\ pc = "grid"
    /\ queue = <<>>
    /\ ac3_entry = <<>>
    /\ inference_ok = TRUE
    /\ assignment = <<>>
    /\ stack = <<>>
    /\ result = Pending

\* Grid(size), for a size of the set.
FreshGrid(sizes) ==
    /\ size \in sizes
    /\ cells = FreshCells(size)
    /\ word_slots = <<>>
    /\ call = [op |-> "Grid", in_bounds |-> TRUE, raised |-> FALSE]
    /\ ncalls = 0
    /\ NoSolver
    /\ NoOracle
    /\ NoValidation
    /\ NoFirstRun

GridInit == FreshGrid(Sizes)

\* The indices given to the grid's methods: from below -size to above size.
Indices == (0 - size - 1) .. size

\* A call grid.set_block(row, col).
SetBlock(row, col) ==
    /\ pc = "grid"
    /\ ncalls < MaxCalls
    /\ LET done == set_block(cells, size, row, col)
       IN /\ cells' = done.cells
          /\ call' = [op |-> "set_block",
                      in_bounds |-> is_valid_position(row, col),
                      raised |-> done.raised]
    /\ ncalls' = ncalls + 1
    /\ UNCHANGED <<size, word_slots, cspVars, aiVars, valVars, runVars>>

\* A call grid.set_letter(row, col, letter).
SetLetter(row, col, letter) ==
    /\ pc = "grid"
    /\ ncalls < MaxCalls
    /\ LET done == set_letter(cells, size, row, col, letter)
       IN /\ cells' = done.cells
          /\ call' = [op |-> "set_letter",
                      in_bounds |-> is_valid_position(row, col),
                      raised |-> done.raised]
    /\ ncalls' = ncalls + 1
    /\ UNCHANGED <<size, word_slots, cspVars, aiVars, valVars, runVars>>

\* A call grid.find_word_slots().
FindWordSlots ==
    /\ pc = "grid"
    /\ ncalls < MaxCalls
    /\ LET found == find_word_slots(cells, size)
       IN /\ cells' = found.cells
          /\ word_slots' = found.slots
    /\ call' = [op |-> "find_word_slots", in_bounds |-> TRUE,
                raised |-> FALSE]
    /\ ncalls' = ncalls + 1
    /\ UNCHANGED <<size, cspVars, aiVars, valVars, runVars>>

GridNext ==
    \/ \E row \in Indices, col \in Indices : SetBlock(row, col)
    \/ \E row \in Indices, col \in Indices, letter \in Letters :
          SetLetter(row, col, letter)
    \/ FindWordSlots

GridSpec == GridInit /\ [][GridNext]_vars

\* Only calls of set_block, with indices inside the grid.
BlocksNext ==
    \E row \in 0 .. size - 1, col \in 0 .. size - 1 : SetBlock(row, col)

BlocksInit == FreshGrid(BlockSizes)

BlocksSpec == BlocksInit /\ [][BlocksNext]_vars

(***************************************************************************)
(* validator.py, and the grid methods it calls                             *)
(***************************************************************************)
\* Largest timeout given to validate(), in ticks of the clock.
MaxTimeout == 1

\* Grid.count_blocks.
count_blocks(cs) == Cardinality({p \in DOMAIN cs : is_block(cs[p])})

\* Grid.block_ratio() > 0.20, with count / total kept as a fraction.
block_ratio_above_fifth(cs, n) == 5 * count_blocks(cs) > n * n

\* The non-block cells of a grid.
white_cells(cs) == {p \in DOMAIN cs : ~ is_block(cs[p])}

\* Cells one step apart in a row or a column.
adjacent(p, q) ==
    \/ p[1] = q[1] /\ (p[2] = q[2] + 1 \/ q[2] = p[2] + 1)
    \/ p[2] = q[2] /\ (p[1] = q[1] + 1 \/ q[1] = p[1] + 1)

\* The breadth-first search of Grid.is_connected: the non-block cells
\* reached from the visited ones.
RECURSIVE bfs(_, _)
bfs(cs, visited) ==
    LET more == {q \in white_cells(cs) \ visited :
                    \E p \in visited : adjacent(p, q)}
    IN IF more = {} THEN visited ELSE bfs(cs, visited \cup more)

\* Grid.is_connected: every non-block cell is reached from the first one in
\* scan order; a grid of blocks only is connected.
is_connected(cs, n) ==
    LET white == white_cells(cs)
    IN IF white = {} THEN TRUE
       ELSE LET k == CHOOSE i \in 0 .. n * n - 1 :
                        /\ <<i \div n, i % n>> \in white
                        /\ \A j \in 0 .. i - 1 :
                               <<j \div n, j % n>> \notin white
                start == <<k \div n, k % n>>
            IN Cardinality(bfs(cs, {start})) = Cardinality(white)

\* PuzzleValidator._check_symmetry.
_check_symmetry(cs, n) ==
    \A row \in 0 .. n - 1, col \in 0 .. n - 1 :
        is_block(cs[<<row, col>>]) = is_block(cs[<<n - 1 - row, n - 1 - col>>])

\* cell_counts of _find_unchecked_squares: the number of slots a cell is
\* part of.
cell_count(slots, pos) ==
    Cardinality({i \in 1 .. Len(slots) :
                    \E k \in 1 .. slots[i].length :
                        slot_cells(slots[i])[k] = pos})

\* _find_unchecked_squares reporting nothing.
_find_unchecked_none(slots) == {}

\* PuzzleValidator._find_unchecked_squares: the cells of the slots that are
\* part of exactly one slot.
_find_unchecked_squares(slots) ==
    {pos \in UNION {SeqToSet(slot_cells(slots[i])) : i \in 1 .. Len(slots)} :
        cell_count(slots, pos) = 1}

\* PuzzleValidator._validate_structure: the errors it appends, and the grid
\* after its call of find_word_slots.
_validate_structure(cs, n) ==
    LET found == find_word_slots(cs, n)
        slots == found.slots
        short_slots == {i \in 1 .. Len(slots) : slots[i].length < 3}
        unchecked == _find_unchecked_squares(slots)
        errors ==
            (IF ~ _check_symmetry(cs, n) THEN {"symmetry"} ELSE {})
            \cup (IF ~ is_connected(cs, n) THEN {"connected"} ELSE {})
            \cup (IF block_ratio_above_fifth(cs, n) THEN {"blocks"} ELSE {})
            \cup (IF short_slots # {} THEN {"short"} ELSE {})
            \cup (IF unchecked # {} THEN {"unchecked"} ELSE {})
    IN [errors |-> errors, cells |-> found.cells, slots |-> slots]

\* PuzzleValidator.__init__: the words of 3 characters and more, in upper
\* case.
validator_word_list(word_list) ==
    {word_upper(w) : w \in {v \in word_list : Len(v) >= 3}}

\* The word lists given to the validator: none, the six words that fill the
\* open 3x3 grid, and those with a seventh word and a short one.
SquareWords ==
    { <<"A", "A", "A">>, <<"A", "A", "B">>, <<"A", "B", "B">>,
      <<"B", "A", "A">>, <<"B", "A", "B">>, <<"b", "b", "a">> }
ValidatorWordLists ==
    { {}, SquareWords, SquareWords \cup {<<"A", "B", "A">>, <<"a", "b">>} }

\* validate(check_fillability, timeout) of PuzzleValidator(grid, word_list),
\* up to the call of solve(): the structure is validated and, when it is
\* valid and fillability is asked for, _check_fillability finds the slots
\* again and constructs the solver on a copy of the grid.
Validate(word_list, check_fillability, t) ==
    /\ pc = "grid"
    /\ ~ validation.called
    /\ LET checked == _validate_structure(cells, size)
           valid == checked.errors = {}
           again == find_word_slots(checked.cells, size)
           test_grid == find_word_slots(again.cells, size)
           wl == validator_word_list(word_list)
           wbl == build_words_by_length(wl)
           started == [called |-> TRUE, returned |-> FALSE,
                       check_fillability |-> check_fillability,
                       valid |-> valid, fillable |-> FALSE,
                       errors |-> checked.errors]
       IN /\ call' = [op |-> "validate", in_bounds |-> TRUE,
                      raised |-> FALSE]
          /\ timeout' = t
          /\ elapsed' = 0
          /\ IF check_fillability /\ valid
             THEN /\ cells' = again.cells
                  /\ word_slots' = again.slots
                  /\ variables' = test_grid.slots
                  /\ neighbors' = _build_constraint_graph(test_grid.slots)
                  /\ words_by_length' = wbl
                  /\ domains' = [s \in SeqToSet(test_grid.slots) |->
                                    IF s.length \in Lengths
                                    THEN wbl[s.length] ELSE {}]
                  /\ pc' = "solve"
                  /\ validation' = started
             ELSE /\ cells' = checked.cells
                  /\ word_slots' = checked.slots
                  /\ pc' = "validated"
                  /\ validation' = [started EXCEPT !.returned = TRUE]
                  /\ UNCHANGED <<variables, neighbors, words_by_length,
                                 domains>>
    /\ UNCHANGED <<size, ncalls, used_words, stats, word_generator,
                   use_inference, queue, ac3_entry, inference_ok,
                   assignment, stack, result, aiVars, runVars>>

\* _check_fillability after solve() has returned: a solution that is not
\* None and not the empty dict makes the result fillable, anything else
\* appends an error; validate() returns the result.
CheckFillabilityReturn ==
    /\ pc = "done"
    /\ validation.called
    /\ ~ validation.returned
    /\ LET solution == result.kind = "assignment" /\ result.assignment # <<>>
       IN validation' =
            [validation EXCEPT
                !.returned = TRUE,
                !.fillable = solution,
                !.errors = IF solution THEN @ ELSE @ \cup {"unfillable"}]
    /\ pc' = "validated"
    /\ UNCHANGED <<gridVars, aiVars, runVars, timeout, elapsed, variables,
                   neighbors, words_by_length, domains, used_words, stats,
                   word_generator, use_inference, queue, ac3_entry,
                   inference_ok, assignment, stack, result>>

\* The clock advances while the solver runs.
Tick ==
    /\ validation.called
    /\ ~ validation.returned
    /\ elapsed <= timeout
    /\ elapsed' = elapsed + 1
    /\ UNCHANGED <<gridVars, cspVars, aiVars, runVars, timeout, validation>>

\* Grid sizes of the validator specification: the configuration accepts the
\* sizes of VALID_SIZES and the YAML import those of 3 and more.
ValidatorSizes == {3, 4}

ValidatorInit == FreshGrid(ValidatorSizes)

\* A grid built by set_block calls, with indices inside the grid or -1,
\* validated once; when the structure is valid and fillability is asked
\* for, the solver runs to its end while the clock advances.
ValidatorNext ==
    \/ \E row \in -1 .. size - 1, col \in -1 .. size - 1 : SetBlock(row, col)
    \/ \E word_list \in ValidatorWordLists, check_fillability \in BOOLEAN,
          t \in 0 .. MaxTimeout :
          Validate(word_list, check_fillability, t)
    \/ Next
    \/ CheckFillabilityReturn
    \/ Tick

ValidatorSpec == ValidatorInit /\ [][ValidatorNext]_vars

(***************************************************************************)
(* The limiter and the generator on their own: any calls of record_call,   *)
(* can_call, get_words_matching_pattern, generate_themed_words and         *)
(* generate_clue on one limiter that is never reset.                       *)
(***************************************************************************)
\* The patterns, counts, used_words and words given to the generator.
Patterns == { <<".", ".", ".">>, <<"a", ".", ".">> }
Counts == {1, 2}
UsedSets == { {}, {<<"A", "B", "B">>} }
ClueWords == { <<"a", "b", "b">> }

OracleInit ==
    /\ size = 3
    /\ cells = FreshCells(3)
    /\ word_slots = <<>>
    /\ call = [op |-> "Grid", in_bounds |-> TRUE, raised |-> FALSE]
    /\ ncalls = 0
    /\ NoSolver
    /\ NoValidation
    /\ NoFirstRun
    /\ \E max_total \in 0 .. MaxTotal, limits \in LimitConfigs :
          limiter = NewLimiter(max_total, limits)
    /\ \E client \in BOOLEAN : ai = NewAI(client)
    /\ dispatched = NoneDispatched
    /\ ai_call = NoAiCall
    /\ on_limit_reached = "fallback"

\* A call limiter.record_call(kind).
RecordCall(kind) ==
    /\ ai_call.n < MaxRequests
    /\ limiter' = record_call(limiter, kind)
    /\ ai_call' = AiCall("record_call", ai_call.n + 1, kind, <<>>, 0, {},
                         <<>>, TRUE, FALSE, FALSE)
    /\ UNCHANGED <<gridVars, cspVars, valVars, runVars, ai, dispatched,
                   on_limit_reached>>

\* A call limiter.can_call(kind).
CanCall(kind) ==
    /\ ai_call.n < MaxRequests
    /\ LET checked == can_call(limiter, kind)
       IN /\ limiter' = checked.limiter
          /\ ai_call' = AiCall("can_call", ai_call.n + 1, kind, <<>>, 0, {},
                               <<>>, checked.allowed, FALSE, FALSE)
    /\ UNCHANGED <<gridVars, cspVars, valVars, runVars, ai, dispatched,
                   on_limit_reached>>

\* The request of a generator call was sent and raised.
sent_and_raised(done, outcome) ==
    done.dispatched # dispatched /\ outcome.raised

\* A call ai.get_words_matching_pattern(pattern, count, theme, used).
GetWordsMatchingPattern(pattern, count, used, outcome) ==
    /\ ai_call.n < MaxRequests
    /\ LET done == get_words_matching_pattern(ai, limiter, dispatched,
                                              pattern, count, used, outcome)
       IN /\ ai' = done.ai
          /\ limiter' = done.limiter
          /\ dispatched' = done.dispatched
          /\ ai_call' = AiCall("get_words_matching_pattern", ai_call.n + 1,
                               PATTERN, pattern, count, used, done.words,
                               TRUE, done.refused,
                               sent_and_raised(done, outcome))
    /\ UNCHANGED <<gridVars, cspVars, valVars, runVars, on_limit_reached>>

\* A call ai.generate_themed_words(theme).
GenerateThemedWords(outcome) ==
    /\ ai_call.n < MaxRequests
    /\ LET done == generate_themed_words(ai, limiter, dispatched, outcome)
       IN /\ ai' = done.ai
          /\ limiter' = done.limiter
          /\ dispatched' = done.dispatched
          /\ ai_call' = AiCall("generate_themed_words", ai_call.n + 1,
                               THEMED, <<>>, 0, {}, done.words, TRUE,
                               done.refused, sent_and_raised(done, outcome))
    /\ UNCHANGED <<gridVars, cspVars, valVars, runVars, on_limit_reached>>

\* A call ai.generate_clue(word).
GenerateClue(word, outcome) ==
    /\ ai_call.n < MaxRequests
    /\ LET done == generate_clue(ai, limiter, dispatched, word, outcome)
       IN /\ ai' = done.ai
          /\ limiter' = done.limiter
          /\ dispatched' = done.dispatched
          /\ ai_call' = AiCall("generate_clue", ai_call.n + 1, CLUE, <<>>,
                               0, {}, done.words, TRUE, done.refused,
                               sent_and_raised(done, outcome))
    /\ UNCHANGED <<gridVars, cspVars, valVars, runVars, on_limit_reached>>

OracleNext ==
    \/ \E kind \in Kinds : RecordCall(kind)
    \/ \E kind \in Kinds : CanCall(kind)
    \/ \E pattern \in Patterns, count \in Counts, used \in UsedSets,
          outcome \in ApiOutcomes :
          GetWordsMatchingPattern(pattern, count, used, outcome)
    \/ \E outcome \in ApiOutcomes : GenerateThemedWords(outcome)
    \/ \E word \in ClueWords, outcome \in ApiOutcomes :
          GenerateClue(word, outcome)

OracleSpec == OracleInit /\ [][OracleNext]_vars

(***************************************************************************)
(* Properties.                                                             *)
(***************************************************************************)
SlotSet == SeqToSet(variables)

\* The pairs of 1-based indices at which two slots share a cell.
Shared(a, b) ==
    {p \in (1 .. a.length) \X (1 .. b.length) :
        slot_cells(a)[p[1]] = slot_cells(b)[p[2]]}

\* The words of an assignment agree wherever two of its slots share a cell.
CrossingsAgree(asg) ==
    \A a \in DOMAIN asg, b \in DOMAIN asg :
        a # b => \A p \in Shared(a, b) : asg[a][p[1]] = asg[b][p[2]]

\* No word is assigned to two slots.
Injective(asg) ==
    \A a \in DOMAIN asg, b \in DOMAIN asg : a # b => asg[a] # asg[b]

\* The total assignments that take each slot's word from D[slot], agree at
\* the crossings and are injective: built slot by slot from the partial
\* assignment asg.
RECURSIVE FillsFrom(_, _, _)
FillsFrom(vs, D, asg) ==
    IF vs = <<>> THEN {asg}
    ELSE LET slot == Head(vs)
             extended(w) == [s \in DOMAIN asg \cup {slot} |->
                                IF s = slot THEN w ELSE asg[s]]
             fitting == {w \in D[slot] :
                            /\ Len(w) >= slot.length
                            /\ CrossingsAgree(extended(w))
                            /\ Injective(extended(w))}
         IN UNION {FillsFrom(Tail(vs), D, extended(w)) : w \in fitting}

Fills(D) == FillsFrom(variables, D, <<>>)

\* The total assignments of dictionary words of the slots' lengths.
DictionaryFills == Fills([s \in SlotSet |-> words_by_length[s.length]])

\* No cell of the grid has a letter.
NoPrefilledLetter == \A p \in DOMAIN cells : cells[p].letter = None

\* C1: every assignment solve() returns agrees at each cell two slots share.
C1_CrossingAgreement ==
    (pc = "done" /\ result.kind = "assignment") =>
        /\ DOMAIN result.assignment = SlotSet
        /\ CrossingsAgree(result.assignment)

C1_Witness ==
    /\ pc = "done"
    /\ result.kind = "assignment"
    /\ \E a \in SlotSet, b \in SlotSet : a # b /\ Shared(a, b) # {}

\* C2: the assignment is injective in every state of the search, and so is
\* the assignment solve() returns.
C2_Injective ==
    /\ Injective(assignment)
    /\ result.kind = "assignment" => Injective(result.assignment)

C2_Witness ==
    /\ pc = "loop"
    /\ Cardinality(DOMAIN assignment) >= 2
    /\ \E s \in SlotSet \ DOMAIN assignment :
          domains[s] \cap {assignment[a] : a \in DOMAIN assignment} # {}

\* C3: without a word generator and without prefilled letters, solve()
\* returns None exactly when the dictionary has no fill of the grid, and a
\* fill of the grid otherwise.
C3_SolveComplete ==
    (pc = "done" /\ ~ word_generator.installed /\ NoPrefilledLetter) =>
        /\ result.kind = "None" <=> DictionaryFills = {}
        /\ result.kind = "assignment" =>
              result.assignment \in DictionaryFills

C3_Witness ==
    /\ pc = "done"
    /\ ~ word_generator.installed
    /\ NoPrefilledLetter
    /\ result.kind = "assignment"
    /\ stats.backtracks > 0

\* C4: the step that ends a failed branch leaves the domains and the
\* assignment as they were just before the branch's value was committed.
C4_BacktrackRestores ==
    [][pc = "undo" =>
          /\ domains' = Top.pre_domains
          /\ assignment' = Top.pre_assignment]_vars

\* A failed branch has ended, and the word generator refilled a domain
\* inside it.
C4_Witness ==
    /\ pc = "loop"
    /\ Top.word # NoWord
    /\ Top.slot \notin DOMAIN assignment
    /\ use_inference
    /\ domains = Top.pre_domains
    /\ stats.ai_words_added > Top.pre_added

\* Every word of every domain has a support in the domain of each slot that
\* shares a cell with its slot.
ArcConsistent(D) ==
    \A x \in DOMAIN D, y \in DOMAIN D :
        x # y =>
          \A p \in Shared(x, y) :
             \A w \in D[x] :
                \E v \in D[y] : v # w /\ v[p[2]] = w[p[1]]

\* C5: when ac3() has returned True, the domains are arc consistent.
C5_ArcConsistentAfterAC3 ==
    (pc = "ac3_done" /\ inference_ok) => ArcConsistent(domains)

\* C6: without a word generator, the fills that can be drawn from the
\* domains are the same during and after ac3() as at its entry.
C6_AC3KeepsFills ==
    (pc \in {"ac3", "ac3_done"} /\ ~ word_generator.installed) =>
        Fills(domains) = Fills(ac3_entry)

C6_Witness ==
    /\ pc = "ac3_done"
    /\ ~ word_generator.installed
    /\ inference_ok
    /\ domains # ac3_entry
    /\ Fills(domains) # {}

\* C7: every call of ac3() returns.
C7_AC3Terminates == (pc = "ac3") ~> (pc = "ac3_done")

\* C8: after calls of set_block inside the grid, a cell is a block exactly
\* when the cell opposite to it is one.
C8_Symmetry ==
    \A p \in DOMAIN cells :
        is_block(cells[p]) <=>
            is_block(cells[<<size - 1 - p[1], size - 1 - p[2]>>])

C8_Witness ==
    /\ call.op = "set_block"
    /\ \E p \in DOMAIN cells :
          /\ p # <<size - 1 - p[1], size - 1 - p[2]>>
          /\ is_block(cells[p])

\* C9: a call of set_block with an index outside 0 .. size-1 raises and
\* leaves every cell as it was.
C9_OutOfBoundsLeavesGrid ==
    [][(ncalls' = ncalls + 1 /\ call'.op = "set_block" /\ ~ call'.in_bounds)
          => (call'.raised /\ cells' = cells)]_vars

\* C10: no block cell carries a letter.
C10_NoLetterOnBlock ==
    \A p \in DOMAIN cells : is_block(cells[p]) => cells[p].letter = None

\* The number of calls of a type recorded by the limiter, and the cap of
\* the type: its configured limit, or max_total.
count_of(kind) ==
    IF kind \in DOMAIN limiter.counts THEN limiter.counts[kind] ELSE 0
\* The counters of a limiter: total_calls and the count of every type.
counters(lim) ==
    [total_calls |-> lim.total_calls,
     counts |-> [kind \in Kinds |-> IF kind \in DOMAIN lim.counts
                                    THEN lim.counts[kind] ELSE 0]]
cap_of(kind) ==
    IF kind \in DOMAIN limiter.limits THEN limiter.limits[kind]
    ELSE limiter.max_total

\* C11: after any record_call calls, can_call(kind) returns True exactly
\* when total_calls < max_total and counts[kind] < the cap of the kind, a
\* kind without configured limit having max_total as its cap.
C11_CanCallIffBelowCaps ==
    \A kind \in Kinds :
        can_call(limiter, kind).allowed <=>
            /\ limiter.total_calls < limiter.max_total
            /\ count_of(kind) < cap_of(kind)

\* can_call has refused a type at its own limit while the total limit was
\* not reached, after calls were recorded.
C11_Witness ==
    /\ ai_call.op = "can_call"
    /\ ~ ai_call.allowed
    /\ limiter.total_calls > 0
    /\ limiter.total_calls < limiter.max_total
    /\ ai_call.kind \in DOMAIN limiter.limits

\* C12: the API requests sent through one limiter never exceed max_total
\* in all and the cap of its type for each type, the requests that raised
\* included.
C12_DispatchWithinCaps ==
    /\ dispatched[THEMED] + dispatched[PATTERN] + dispatched[CLUE]
          <= limiter.max_total
    /\ \A kind \in Kinds : dispatched[kind] <= cap_of(kind)

\* A request was refused by the limiter after a request that was sent:
\* the type is at its cap.
C12_Witness ==
    /\ ai_call.refused
    /\ dispatched[ai_call.kind] > 0
    /\ dispatched[ai_call.kind] = cap_of(ai_call.kind)
    /\ limiter.total_calls < limiter.max_total

\* C13: a call of get_words_matching_pattern whose key is in the pattern
\* cache returns the cached words that are not in used_words (count of
\* them at most), sends no request and leaves the limiter as it was, also
\* when every cached word is in used_words.
C13_CacheHitFrame ==
    [][(/\ ai_call'.n = ai_call.n + 1
        /\ ai_call'.op = "get_words_matching_pattern"
        /\ word_upper(ai_call'.pattern) \in DOMAIN ai.word_cache)
       => /\ ai_call'.words =
                first(not_used(ai.word_cache[word_upper(ai_call'.pattern)],
                               ai_call'.used),
                      ai_call'.count)
          /\ dispatched' = dispatched
          /\ counters(limiter') = counters(limiter)]_vars

\* The running ac3() is about to empty the domain of the first slot of the
\* arc at the head of its queue.
Emptying ==
    /\ pc = "ac3"
    /\ queue # <<>>
    /\ LET rev == revise(domains, Head(queue)[1], Head(queue)[2])
       IN rev.revised /\ rev.domains[Head(queue)[1]] = {}

\* A word has the length of a slot and matches the slot's pattern.
Conforms(word, slot) ==
    /\ Len(word) = slot.length
    /\ matches_pattern(word, get_pattern(slot, cells))

\* C14: after a refill in ac3(), every word put into the emptied slot's
\* domain and added to the dictionary bucket of the slot's length has the
\* slot's length and matches the slot's pattern.
C14_RefillConforms ==
    [][(Emptying /\ domains'[Head(queue)[1]] # {})
       => LET slot_x == Head(queue)[1]
          IN /\ \A word \in domains'[slot_x] : Conforms(word, slot_x)
             /\ \A word \in words_by_length'[slot_x.length]
                               \ words_by_length[slot_x.length] :
                   Conforms(word, slot_x)]_vars

\* C15: with on_limit_reached = 'fail', a solve() in which the limiter
\* refused a request of the word generator ends with the error outcome
\* AILimitError, not with None or an assignment.
C15_FailPolicySurfaces ==
    (pc = "done" /\ on_limit_reached = "fail" /\ ai.warned)
        => result.kind = "AILimitError"

\* C16: with max_total = 0 and on_limit_reached = 'fallback', a solve() in
\* which a domain was emptied (the generator was asked and the limiter
\* refused) returns None, no API request was sent and words_requested is 0.
C16_ZeroCapNoRequests ==
    (/\ pc = "done"
     /\ word_generator.closure
     /\ limiter.max_total = 0
     /\ on_limit_reached = "fallback"
     /\ ai.warned)
        => /\ result.kind = "None"
           /\ dispatched = NoneDispatched
           /\ stats.words_requested = 0

\* The dictionary holds no word of the length of any slot: every slot's
\* domain is empty at construction.
EmptyDictionary == \A s \in SlotSet : words_by_length[s.length] = {}

\* C17: with an empty dictionary and a word generator installed, solve()
\* on a grid with at least one slot never calls the word generator and
\* returns None.
C17_EmptyDictionaryNoOracle ==
    [][(EmptyDictionary /\ word_generator.installed /\ variables # <<>>)
       => /\ stats'.words_requested = 0
          /\ word_generator' = word_generator
          /\ (pc' = "done" => result'.kind = "None")]_vars

\* Every domain of D holds exactly one word and these words are a valid
\* fill; the fill.
SingletonFill(D) ==
    /\ \A s \in DOMAIN D : Cardinality(D[s]) = 1
    /\ Fills(D) # {}
TheFill(D) == [s \in DOMAIN D |-> CHOOSE word \in D[s] : TRUE]

\* The domains the search started with: those the outermost backtrack()
\* frame found before its commit.
SearchDomains == stack[1].pre_domains

\* C18: when every domain holds exactly one word after node consistency
\* and the initial AC-3 and these words are a valid fill, the search
\* returns this fill with backtracks = 0 and assignments_tried equal to the
\* number of slots.
C18_SingletonsStraightThrough ==
    [][(/\ pc' = "done"
        /\ pc \in {"backtrack", "loop"}
        /\ stack # <<>>
        /\ SingletonFill(SearchDomains))
       => /\ result' = Returned(TheFill(SearchDomains))
          /\ stats'.backtracks = 0
          /\ stats'.assignments_tried = Len(variables)]_vars

\* The search is about to return the fill of singleton domains, on a grid
\* of crossing slots.
C18_Witness ==
    /\ pc = "backtrack"
    /\ stack # <<>>
    /\ Len(variables) >= 3
    /\ Cardinality(DOMAIN assignment) = Len(variables)
    /\ SingletonFill(SearchDomains)

\* The timeout given to validate() has passed.
DeadlinePassed == validation.called /\ elapsed > timeout

\* backtrack() is entered with slots still to assign: its next step selects
\* a variable.
AtVariableSelection ==
    pc = "backtrack" /\ Cardinality(DOMAIN assignment) < Len(variables)

\* C19: when the timeout given to the validator's fillability check has
\* passed during search, the solver stops at its next variable-selection
\* step: solve() returns there, with an outcome DeadlineExceeded that is
\* not the None of an exhausted search, and the statistics are those
\* accumulated so far.
C19_DeadlineStopsSearch ==
    [][(DeadlinePassed /\ AtVariableSelection)
       => /\ pc' = "done"
          /\ result'.kind = "DeadlineExceeded"
          /\ stats' = stats]_vars

\* A slot covers a cell: the cell is one of the slot's run.
covers(slot, pos) ==
    IF slot.direction = ACROSS
    THEN /\ pos[1] = slot.start_row
         /\ pos[2] \in slot.start_col .. slot.start_col + slot.length - 1
    ELSE /\ pos[2] = slot.start_col
         /\ pos[1] \in slot.start_row .. slot.start_row + slot.length - 1

\* The number of slots of one direction that cover a cell; word_slots holds
\* what find_word_slots returned to the validator.
covering(pos, direction) ==
    Cardinality({i \in 1 .. Len(word_slots) :
                    /\ word_slots[i].direction = direction
                    /\ covers(word_slots[i], pos)})

\* Some non-block cell is not covered by exactly one Across slot and
\* exactly one Down slot.
SomeCellNotCovered ==
    \E pos \in white_cells(cells) :
        covering(pos, ACROSS) # 1 \/ covering(pos, DOWN) # 1

C21_DomainsWithinDictionary ==
    \A slot \in DOMAIN domains :
        domains[slot] \subseteq words_by_length[slot.length]

\* C22: for every solution S returned by solve(), after apply_solution(S)
\* the pattern of each slot read back from the grid equals S[slot] letter
\* for letter.
C22_AppliedSolutionReadsBack ==
    pc = "applied" =>
        \A slot \in DOMAIN result.assignment :
            get_pattern(slot, cells) = result.assignment[slot]

\* C23: with no word generator solve() is deterministic: two runs on the
\* same grid and the same word list return the same assignment and the
\* same backtracks and assignments_tried counters.
C23_TwoRunsAgree ==
    (pc = "done" /\ first_run.finished) =>
        /\ result = first_run.result
        /\ stats.backtracks = first_run.stats.backtracks
        /\ stats.assignments_tried = first_run.stats.assignments_tried

\* C24 as stated: within one invocation of ac3(), at every step each
\* domain is a subset of what it was at the previous step, also when a word
\* generator is installed.
C24_DomainsOnlyShrink ==
    [][pc = "ac3" =>
         \A slot \in DOMAIN domains :
            domains'[slot] \subseteq domains[slot]]_vars

\* C24, amended: within one invocation of ac3(), at every step each domain
\* is a subset of what it was at the previous step, except the domain that
\* revise has just emptied while a word generator is installed, which may
\* become the words the generator returns.
C24_DomainsShrinkUnlessRefilled ==
    [][pc = "ac3" =>
         \A slot \in DOMAIN domains :
            \/ domains'[slot] \subseteq domains[slot]
            \/ /\ Emptying
               /\ word_generator.installed
               /\ slot = Head(queue)[1]]_vars

\* A running ac3() with a word generator installed holds a domain with a
\* word it did not have at the entry, put there by a refill, and another
\* domain that has lost words since the entry.
C24_Witness ==
    /\ pc = "ac3"
    /\ word_generator.installed
    /\ stats.ai_words_added > 0
    /\ \E slot \in DOMAIN domains : ~ (domains[slot] \subseteq ac3_entry[slot])
    /\ \E slot \in DOMAIN domains :
          /\ domains[slot] \subseteq ac3_entry[slot]
          /\ domains[slot] # ac3_entry[slot]

\* The unassigned slots, and the number of unassigned neighbors of a slot.
Unassigned == SlotSet \ DOMAIN assignment
unassigned_neighbors(slot) ==
    Cardinality({k \in 1 .. Len(neighbors[slot]) :
                    neighbors[slot][k][1] \notin DOMAIN assignment})

\* The slots the stated rule allows: of smallest domain among the
\* unassigned ones, among those of most unassigned neighbors, among those
\* of smallest number.
SmallestDomain ==
    {s \in Unassigned :
        \A t \in Unassigned :
            Cardinality(domains[s]) <= Cardinality(domains[t])}
MostUnassignedNeighbors ==
    {s \in SmallestDomain :
        \A t \in SmallestDomain :
            unassigned_neighbors(s) >= unassigned_neighbors(t)}
FirstNumbered ==
    {s \in MostUnassignedNeighbors :
        \A t \in MostUnassignedNeighbors : s.number <= t.number}

\* C25: the slot backtrack() selects is, among the unassigned slots, one
\* with the smallest current domain; among those, one with the largest
\* number of unassigned neighbours; among those, one that comes first in
\* numbering order.
C25_SelectsByUnassignedDegree ==
    [][(pc = "backtrack" /\ pc' = "loop")
       => stack'[Len(stack')].slot \in FirstNumbered]_vars

\* C26: when solve() reports failure while some slot's domain is empty and
\* a word generator is installed, the generator has been asked for words
\* before: at least one request has been counted.
C26_AskedBeforeFailure ==
    [][(/\ pc # "done"
        /\ pc' = "done"
        /\ result'.kind = "None"
        /\ word_generator.installed
        /\ \E slot \in DOMAIN domains : domains[slot] = {})
       => stats.words_requested > 0]_vars

\* C27: after a refill of a slot's domain by ac3() during search, the
\* domain holds no word that the current assignment gives to another slot.
C27_RefillExcludesAssigned ==
    [][(/\ Emptying
        /\ stack # <<>>
        /\ word_generator.installed
        /\ domains'[Head(queue)[1]] # {})
       => LET slot_x == Head(queue)[1]
          IN \A other \in DOMAIN assignment \ {slot_x} :
                assignment[other] \notin domains'[slot_x]]_vars

\* The positions where a slot of the list of slots starts.
SlotStarts ==
    {<<word_slots[k].start_row, word_slots[k].start_col>> :
        k \in 1..Len(word_slots)}

\* C28: when find_word_slots() has returned, a cell carries a number exactly
\* when a slot of the returned list starts at it, two slots starting at one
\* cell carry one number, and the list is in non-decreasing number order.
C28_NumbersMatchSlotStarts ==
    call.op = "find_word_slots" =>
       /\ \A pos \in DOMAIN cells :
             cells[pos].number # 0 <=> pos \in SlotStarts
       /\ \A i, j \in 1..Len(word_slots) :
             /\ (/\ word_slots[i].start_row = word_slots[j].start_row
                 /\ word_slots[i].start_col = word_slots[j].start_col)
                => word_slots[i].number = word_slots[j].number
             /\ i < j => word_slots[i].number <= word_slots[j].number

\* C29: when ac3() has returned True, no slot has an empty domain, a domain
\* that was empty when ac3() was called included.
C29_TrueMeansNoEmptyDomain ==
    (pc = "ac3_done" /\ inference_ok) =>
       \A slot \in DOMAIN domains : domains[slot] # {}

\* C30: when ac3() asks the word generator for an emptied slot during
\* search, the pattern it passes has, at every cell the slot shares with an
\* assigned slot, the letter of that slot's assigned word.
C30_PatternCarriesAssignedLetters ==
    (Emptying /\ word_generator.installed /\ stack # <<>>) =>
       LET slot_x == Head(queue)[1]
           pattern == get_pattern(slot_x, cells)
       IN \A other \in DOMAIN assignment \ {slot_x} :
             \A p \in Shared(slot_x, other) :
                pattern[p[1]] = assignment[other][p[2]]
====
